---- MODULE Spec2Model ----
(***************************************************************************)
(* A model of WebsiteArchiver (Snapshot_HTML_Website_to_Internet_Archive): *)
(* the asset store, the page rewriter, the HTML normalizer, the change     *)
(* detector and snapshot(), run step by step against a nondeterministic    *)
(* fetch collaborator and a wall clock of one-second resolution.           *)
(*                                                                         *)
(* Strings the code takes apart (URL paths, file names, HTML) are          *)
(* sequences of tokens; every token is atomic and no token is a            *)
(* concatenation of others, so two token sequences are equal exactly when  *)
(* the strings they spell are equal.                                       *)
(***************************************************************************)
EXTENDS Integers, Sequences, FiniteSets, TLC

\* ------------------------------------------------------------------ bounds
MaxPages == 2      \* longest page list handed to snapshot()
MaxRuns  == 2      \* snapshot() runs in one behaviour
MaxClock == 2      \* last second of the wall clock
MaxStores == 3     \* direct store calls in SpecStore
MaxNodes == 3      \* longest document outline handed to the normalizer
MaxRewrites == 2   \* _rewrite_html calls made on their own

\* --------------------------------------------------------- generic helpers
Last(s) == s[Len(s)]

Range(s) == {s[i] : i \in 1..Len(s)}

RECURSIVE MapSeq(_, _)
\* s with Op applied to every element
MapSeq(Op(_), s) ==
    IF s = <<>> THEN <<>> ELSE <<Op(Head(s))>> \o MapSeq(Op, Tail(s))

RECURSIVE FlatMap(_, _)
\* concatenation of Op(e) for the elements e of s
FlatMap(Op(_), s) ==
    IF s = <<>> THEN <<>> ELSE Op(Head(s)) \o FlatMap(Op, Tail(s))

\* f with key k (re)bound to v
Put(f, k, v) == (k :> v) @@ f

\* ------------------------------------------------------------------- URLs
\* A URL as urlparse sees it: the path as tokens, and the query string.
Url(path, query) == [path |-> path, query |-> query]

UrlA    == Url(<<"/", "a">>, "")
UrlAq   == Url(<<"/", "a">>, "v=2")
UrlDeep == Url(<<"/", "d", "/", "p", ".html">>, "")

\* The entries a page list is made of: absolute URLs, and entries that do
\* not start with 'http' (abs = FALSE), as in pages = ["d/p.html"].
AbsEntry(u) == [abs |-> TRUE, path |-> u.path, query |-> u.query]
RelEntry(path, query) == [abs |-> FALSE, path |-> path, query |-> query]

Entries ==
    {AbsEntry(UrlA), AbsEntry(UrlAq), RelEntry(<<"d", "/", "p", ".html">>, "")}

\* snapshot(), lines 230-231: urljoin(base_url, page_url) for an entry that
\* does not start with 'http'; base_url has no path of its own.
Resolve(e) ==
    IF e.abs \/ (e.path # <<>> /\ Head(e.path) = "/")
    THEN Url(e.path, e.query)
    ELSE Url(<<"/">> \o e.path, e.query)

RECURSIVE LStrip(_)
LStrip(p) == IF p # <<>> /\ Head(p) = "/" THEN LStrip(Tail(p)) ELSE p

RECURSIVE RStrip(_)
RStrip(p) ==
    IF p # <<>> /\ Last(p) = "/" THEN RStrip(SubSeq(p, 1, Len(p) - 1)) ELSE p

\* str.strip('/')
Strip(p) == RStrip(LStrip(p))

SlashToUnderscore(t) == IF t = "/" THEN "_" ELSE t

\* snapshot(), lines 285-288: the page's file name from the URL path.
FileNameOf(url) ==
    LET stripped == Strip(url.path)
        path == IF stripped = <<>> THEN <<"index">> ELSE stripped
    IN  IF Last(path) = ".html"
        THEN path
        ELSE MapSeq(SlashToUnderscore, path) \o <<".html">>

HtmlToOriginal(t) == IF t = ".html" THEN <<"_original", ".html">> ELSE <<t>>

\* line 296 without the replace
OriginalNameSame(path) == path

\* snapshot(), line 296: path.replace('.html', '_original.html')
OriginalNameOf(path) == FlatMap(HtmlToOriginal, path)

RECURSIVE BaseName(_)
\* Path.name: what follows the last slash
BaseName(p) ==
    IF \E i \in 1..Len(p) : p[i] = "/" THEN BaseName(Tail(p)) ELSE p

\* open(snapshot_dir / path, 'w') needs the parent directory to exist, and
\* snapshot() creates no directory below snapshot_dir.
CanOpenForWrite(path) == \A i \in 1..Len(path) : path[i] # "/"

\* ------------------------------------------------------------------- HTML
\* A document is a sequence of nodes: text tokens and the tags the code
\* looks at.  Every node is a record of the same shape.
\*   k      "txt" | "ws" | "num" | "unit" | "ago" | "dot" | "time" | "cfr"
\*          | "img" | "script" | "link" | "a"
\*   s      the token's text; for a tag, the referenced path without extension
\*   ext    a tag's referenced file extension
\*   q      a tag's query string, as a sequence of <<name, value>>
\*   fmt    a tag's attribute quoting as written ("dq" | "sq")
\*   loc    "remote", or "local" once rewritten to ../../assets/...
\*   bucket the asset type directory of a local reference
Text(k, s) ==
    [k |-> k, s |-> s, ext |-> "", q |-> <<>>, fmt |-> "", loc |-> "", bucket |-> ""]

Tag(k, s, ext, q, fmt) ==
    [k |-> k, s |-> s, ext |-> ext, q |-> q, fmt |-> fmt, loc |-> "remote", bucket |-> ""]

IsTag(n) == n.k \in {"img", "script", "link", "a"}

\* What the site serves: DocA and DocA2 are one page fetched at two moments
\* (other tracking parameter, other relative time, other quoting); DocB is
\* another page.
DocA ==
    << Tag("img", "/logo", ".png", << <<"_gl", "t1">> >>, "dq"),
       Text("txt", "news"), Text("ws", " "),
       Text("num", "5"), Text("ws", " "), Text("unit", "days"), Text("ws", " "),
       Text("ago", "ago") >>

DocA2 ==
    << Tag("img", "/logo", ".png", << <<"_gl", "t2">> >>, "sq"),
       Text("txt", "news"), Text("ws", "\n"), Text("ws", " "),
       Text("num", "3"), Text("ws", " "), Text("unit", "h.") >>

DocB ==
    << Text("txt", "sale"), Tag("script", "/app", ".js", <<>>, "dq") >>

\* a page with a script ahead of an image and a stylesheet
DocC ==
    << Tag("script", "/app", ".js", <<>>, "dq"), Text("txt", "shop"),
       Tag("img", "/pic", ".png", <<>>, "sq"),
       Tag("link", "/site", ".css", <<>>, "dq") >>

Docs == {DocA, DocA2, DocB}

\* str(BeautifulSoup(html)): attribute quoting comes out uniform.
Serialize(n) == IF IsTag(n) THEN [n EXCEPT !.fmt = "dq"] ELSE n

RECURSIVE CutAt(_, _, _, _)
\* re.sub(r'[?&]name=[^"'>\s]+', '', value): the match runs to the end of
\* the attribute value, so the query is cut at the first such parameter;
\* first = TRUE is the pattern anchored at '?', FALSE the one anchored at '&'.
CutAt(q, name, first, i) ==
    IF i > Len(q) THEN q
    ELSE IF q[i][1] = name /\ ((i = 1) = first) THEN SubSeq(q, 1, i - 1)
    ELSE CutAt(q, name, first, i + 1)

\* _normalize_html_for_comparison, lines 420-423 and 428-431
StripTracking(q) ==
    LET q1 == CutAt(q, "_gl", TRUE, 1)
        q2 == CutAt(q1, "_gl", FALSE, 1)
        q3 == CutAt(q2, "_ga", TRUE, 1)
    IN  CutAt(q3, "_ga", FALSE, 1)

\* lines 417-432: every tag of the model carries its reference in the one
\* attribute (href or src) the two loops rewrite.
StripNode(n) == IF IsTag(n) THEN [n EXCEPT !.q = StripTracking(n.q)] ELSE n

\* lines 438-440: challenge tokens become a fixed placeholder
RemoveToken(n) == IF n.k = "cfr" THEN [n EXCEPT !.s = "[REMOVED]"] ELSE n

RECURSIVE SkipWs(_, _)
SkipWs(t, i) == IF i <= Len(t) /\ t[i].k = "ws" THEN SkipWs(t, i + 1) ELSE i

RECURSIVE TimePass(_, _)
\* line 444: \d+\s*(unit)\s*(ago)?\.?  ->  [TIME], scanning from node i
TimePass(t, i) ==
    IF i > Len(t) THEN <<>>
    ELSE LET j == SkipWs(t, i + 1)
             m == SkipWs(t, j + 1)
             a == IF m <= Len(t) /\ t[m].k = "ago" THEN m + 1 ELSE m
             d == IF a <= Len(t) /\ t[a].k = "dot" THEN a + 1 ELSE a
         IN  IF t[i].k = "num" /\ j <= Len(t) /\ t[j].k = "unit"
             THEN <<Text("time", "[TIME]")>> \o TimePass(t, d)
             ELSE <<t[i]>> \o TimePass(t, i + 1)

\* line 448: <img[^>]*facebook\.com/tr[^>]*> is removed
IsPixel(n) == n.k = "img" /\ n.s = "facebook.com/tr"

RECURSIVE Collapse(_, _)
\* line 451: ' '.join(text.split()); prevWs: the node before was whitespace
\* (or the text has not begun)
Collapse(t, prevWs) ==
    IF t = <<>> THEN <<>>
    ELSE IF Head(t).k = "ws"
         THEN IF prevWs \/ \A i \in 1..Len(t) : t[i].k = "ws"
              THEN Collapse(Tail(t), TRUE)
              ELSE <<Text("ws", " ")>> \o Collapse(Tail(t), TRUE)
         ELSE <<Head(t)>> \o Collapse(Tail(t), FALSE)

\* _normalize_html_for_comparison, lines 408-453
Normalize(html) ==
    LET stripped == MapSeq(StripNode, html)
        text     == MapSeq(Serialize, stripped)
        tokens   == MapSeq(RemoveToken, text)
        timed    == TimePass(tokens, 1)
        nopixel  == SelectSeq(timed, LAMBDA n : ~IsPixel(n))
    IN  Collapse(nopixel, TRUE)

\* ------------------------------------------------------------ asset store
\* Asset bodies.  The digest of a body is 64 hex digits, of which the store
\* keeps the first 16: "b1" and "b3" differ only after the 16th digit.
Bodies == {"b1", "b2", "b3"}

Sha256(content) ==
    CASE content = "b1" -> <<"h1", "x">>
      [] content = "b2" -> <<"h2", "x">>
      [] content = "b3" -> <<"h1", "y">>
      [] OTHER          -> <<"h0", "x">>

\* _get_file_hash, lines 70-72: hexdigest()[:16]
GetFileHash(content) == Sha256(content)[1]

\* _download_asset, lines 74-85: the body, or None after any failure
DownloadFailed == [ok |-> FALSE, body |-> ""]
Downloaded(b)  == [ok |-> TRUE, body |-> b]

\* `if content:` in _rewrite_html: None and the empty body are both falsy
Truthy(r) == r.ok /\ r.body # ""

\* _save_asset, lines 96-110
ExtOf(ref) == IF ref.ext = "" THEN ".bin" ELSE ref.ext

AssetType(ext) ==
    CASE ext \in {".jpg", ".jpeg", ".png", ".gif", ".svg", ".webp", ".ico"} -> "images"
      [] ext \in {".css"} -> "css"
      [] ext \in {".js"} -> "js"
      [] ext \in {".woff", ".woff2", ".ttf", ".eot"} -> "fonts"
      [] OTHER -> "other"

\* f"assets/{asset_type}/{content_hash}{ext}"
RelativePath(hash, ext) == <<"assets", AssetType(ext), hash, ext>>

\* _save_asset without the lookup of lines 91-94
SaveAssetNoLookup(cache, disk, files, ref, content) ==
    LET content_hash == GetFileHash(content)
        relative_path == RelativePath(content_hash, ExtOf(ref))
        cache2 == Put(cache, content_hash, relative_path)
    IN  [path |-> relative_path, cache |-> cache2, disk |-> cache2,
         files |-> Put(files, relative_path, content), wrote |-> TRUE]

\* _save_asset keeping only the newest entry and file when it stores
SaveAssetEvicts(cache, disk, files, ref, content) ==
    LET content_hash == GetFileHash(content)
        relative_path == RelativePath(content_hash, ExtOf(ref))
        cache2 == (content_hash :> relative_path)
    IN  IF content_hash \in DOMAIN cache
        THEN [path |-> cache[content_hash], cache |-> cache, disk |-> disk,
              files |-> files, wrote |-> FALSE]
        ELSE [path |-> relative_path, cache |-> cache2, disk |-> cache2,
              files |-> (relative_path :> content), wrote |-> TRUE]

\* _save_asset without the _save_asset_cache() of line 126
SaveAssetNoPersist(cache, disk, files, ref, content) ==
    LET content_hash == GetFileHash(content)
        relative_path == RelativePath(content_hash, ExtOf(ref))
    IN  IF content_hash \in DOMAIN cache
        THEN [path |-> cache[content_hash], cache |-> cache, disk |-> disk,
              files |-> files, wrote |-> FALSE]
        ELSE [path |-> relative_path,
              cache |-> Put(cache, content_hash, relative_path), disk |-> disk,
              files |-> Put(files, relative_path, content), wrote |-> TRUE]

\* _save_asset, lines 87-129, on the in-memory cache, the persisted index
\* and the asset files; wrote = a file was written.
SaveAsset(cache, disk, files, ref, content) ==
    LET content_hash == GetFileHash(content)
        relative_path == RelativePath(content_hash, ExtOf(ref))
        cache2 == Put(cache, content_hash, relative_path)
    IN  IF content_hash \in DOMAIN cache
        THEN [path |-> cache[content_hash], cache |-> cache, disk |-> disk,
              files |-> files, wrote |-> FALSE]
        ELSE [path |-> relative_path, cache |-> cache2, disk |-> cache2,
              files |-> Put(files, relative_path, content), wrote |-> TRUE]

\* one _save_asset call as an observer sees it: the arguments, the path
\* returned, the index and the asset files before and after, and the
\* persisted index when the call returns
StoreCallRecord(ref, content, saved, cache, files) ==
    [ref |-> ref, body |-> content, path |-> saved.path,
     index_before |-> cache, index_after |-> saved.cache,
     files_before |-> files, files_after |-> saved.files,
     disk_after |-> saved.disk]

\* ----------------------------------------------------------- page rewriter
IndicesOf(html, kind) == SelectSeq([i \in 1..Len(html) |-> i], LAMBDA i : html[i].k = kind)

\* _rewrite_html, lines 137, 148, 165: images, then stylesheet links, then
\* scripts, each group in document order
RewriteOrder(html) ==
    IndicesOf(html, "img") \o IndicesOf(html, "link") \o IndicesOf(html, "script")

AssetTags(html) == Range(RewriteOrder(html))

\* tag['src'] = f"../../{local_path}"
Localize(n, path) ==
    [n EXCEPT !.loc = "local", !.bucket = path[2], !.s = path[3], !.ext = path[4],
              !.q = <<>>]

\* one _download_asset call of _rewrite_html as an observer sees it: the
\* reference asked for and whether `if content:` let it through
AssetRequest(ref, content) == [ref |-> ref, fetched |-> Truthy(content)]

RECURSIVE RewriteFromStopsAtFailure(_, _, _, _)
\* the loops of _rewrite_html giving up at the first asset that cannot be
\* fetched
RewriteFromStopsAtFailure(order, k, dl, st) ==
    IF k > Len(order) THEN st
    ELSE LET i == order[k]
             saved == SaveAsset(st.cache, st.disk, st.files, st.html[i], dl[i].body)
             asked == [st EXCEPT !.requested =
                                    Append(@, AssetRequest(st.html[i], dl[i]))]
         IN  IF Truthy(dl[i])
             THEN RewriteFromStopsAtFailure(order, k + 1, dl,
                      [asked EXCEPT !.html[i] = Localize(@, saved.path),
                                    !.assets = Append(@, saved.path),
                                    !.cache = saved.cache,
                                    !.disk = saved.disk,
                                    !.files = saved.files,
                                    !.stored = Append(@,
                                        StoreCallRecord(st.html[i], dl[i].body, saved,
                                                        st.cache, st.files))])
             ELSE asked

RECURSIVE RewriteFrom(_, _, _, _)
\* the loops of _rewrite_html from the k-th tag of `order` on; dl[i] is what
\* _download_asset returns for the tag at node i; st carries the soup, the
\* assets used, the store, the asset requests made and the store calls made
RewriteFrom(order, k, dl, st) ==
    IF k > Len(order) THEN st
    ELSE LET i == order[k]
             saved == SaveAsset(st.cache, st.disk, st.files, st.html[i], dl[i].body)
             asked == [st EXCEPT !.requested =
                                    Append(@, AssetRequest(st.html[i], dl[i]))]
         IN  IF Truthy(dl[i])
             THEN RewriteFrom(order, k + 1, dl,
                      [asked EXCEPT !.html[i] = Localize(@, saved.path),
                                    !.assets = Append(@, saved.path),
                                    !.cache = saved.cache,
                                    !.disk = saved.disk,
                                    !.files = saved.files,
                                    !.stored = Append(@,
                                        StoreCallRecord(st.html[i], dl[i].body, saved,
                                                        st.cache, st.files))])
             ELSE RewriteFrom(order, k + 1, dl, asked)

\* _rewrite_html, lines 131-173: (str(soup), assets_used) and the store after
RewriteHtml(html, dl, cache, disk, files) ==
    LET st == RewriteFrom(RewriteOrder(html), 1, dl,
                  [html |-> html, assets |-> <<>>, cache |-> cache, disk |-> disk,
                   files |-> files, requested |-> <<>>, stored |-> <<>>])
    IN  [st EXCEPT !.html = MapSeq(Serialize, st.html)]

\* ------------------------------------------------------------------ state
VARIABLES
    clock,                    \* datetime.now(), in seconds
    enable_internet_archive,  \* self.enable_internet_archive
    asset_cache,              \* self.asset_cache: hash -> relative path
    cache_file,               \* assets/asset_cache.json
    asset_files,              \* the files under assets/<bucket>/
    snapshots,                \* <output>/<domain>/: directory name -> its files
    debug_files,              \* debug_comparison/: timestamp -> the two dumps
    pc,                       \* where snapshot() stands
    timestamp,                \* snapshot()'s timestamp
    pages_to_archive,         \* snapshot()'s argument, defaulted
    temp_pages,               \* snapshot()'s temp_pages
    manifest,                 \* snapshot()'s manifest
    result,                   \* what the last finished snapshot() returned
    runs,                     \* snapshot() calls so far
    pre,                      \* the output tree as the current run found it
    prev_temp,                \* temp_pages of the run before
    fetch_log,                \* page requests of the current run, and how they ended
    asset_log,                \* asset requests made by the current run
    write_log,                \* page files written by the current run
    store_log,                \* every _save_asset call so far
    detector,                 \* what _has_content_changed_from_temp last did
    upload_log,               \* what _upload_to_internet_archive last did
    normalizer,               \* _normalize_html_for_comparison called on its own
    rewriter,                 \* _rewrite_html called on its own
    loop,                     \* run_continuous: where its loop is, and the page list it was given
    store_call                \* a _save_asset call in progress, step by step

vars ==
    <<clock, enable_internet_archive, asset_cache, cache_file, asset_files,
      snapshots, debug_files, pc, timestamp, pages_to_archive, temp_pages,
      manifest, result, runs, pre, prev_temp, fetch_log, asset_log, write_log,
      store_log, detector, upload_log, normalizer,
      rewriter,
      loop,
      store_call>>

store_vars == <<asset_cache, cache_file, asset_files, store_log>>
run_vars   == <<timestamp, pages_to_archive, temp_pages, manifest>>

\* no _save_asset call is in progress; begun and interrupted count the calls
\* entered and the calls an interrupt cut short
NoStoreCall(begun, interrupted) ==
    [at |-> "idle", begun |-> begun, interrupted |-> interrupted]

\* run_continuous has not been called
NotLooping == [at |-> "off", pages |-> <<>>, interrupted |-> FALSE]

\* _get_most_recent_snapshot returns None (line 665); snapshot() returns None
\* (line 260).  Directory names are the seconds 1, 2, ...
NoSnapshot == 0

ManifestName == <<"manifest.json">>
ChangesName  == <<"CHANGES.txt">>

EmptyDir == [n \in {} |-> <<>>]

\* the output tree, for comparing before and after
Tree ==
    [snapshots |-> snapshots, asset_files |-> asset_files,
     cache_file |-> cache_file, asset_cache |-> asset_cache,
     debug_files |-> debug_files]

SetMax(S) == CHOOSE x \in S : \A y \in S : y <= x

\* _get_most_recent_snapshot, lines 660-665: sorted(...)[-1] or None
MostRecentSnapshot(snaps) ==
    IF DOMAIN snaps = {} THEN NoSnapshot ELSE SetMax(DOMAIN snaps)

\* temp_pages entries, lines 242-253
FetchedPage(url, html) == [url |-> url, html |-> html, status |-> "success"]
FailedPage(url) == [url |-> url, status |-> "failed", error |-> "error"]

\* manifest['pages'] entries, lines 300-312
SuccessRecord(url, path, original, assets) ==
    [url |-> url, file |-> path, original_file |-> original, assets |-> assets,
     status |-> "success"]
FailedRecord(tp) == [url |-> tp.url, status |-> "failed", error |-> tp.error]

\* the first p in previous_manifest['pages'] with p['url'] == url and
\* p['status'] == 'success' (lines 485-489), as its index, or 0
FindPrevPage(pages, url) ==
    LET hits == {j \in 1..Len(pages) : pages[j].url = url /\ pages[j].status = "success"}
    IN  IF hits = {} THEN 0 ELSE CHOOSE j \in hits : \A h \in hits : j <= h

\* lines 496-500 always taking the rewritten file
PrevHtmlFileRewritten(prev_page) == prev_page.file

\* lines 496-500
PrevHtmlFile(prev_page) ==
    IF "original_file" \in DOMAIN prev_page
    THEN prev_page.original_file
    ELSE prev_page.file

NoDump == [written |-> FALSE, current |-> <<>>, previous |-> <<>>]

Verdict(changed, loaded, normalized, dump) ==
    [changed |-> changed, loaded |-> loaded, normalized |-> normalized, dump |-> dump]

RECURSIVE CompareFromFailedIsChange(_, _, _, _, _)
\* the loop of lines 480-551 taking a failed candidate for a change instead
\* of skipping it (lines 481-482)
CompareFromFailedIsChange(temp, dir, prev_pages, i, normalized) ==
    IF i > Len(temp) THEN Verdict(FALSE, TRUE, normalized, NoDump)
    ELSE IF temp[i].status # "success"
    THEN Verdict(TRUE, TRUE, normalized, NoDump)
    ELSE LET j == FindPrevPage(prev_pages, temp[i].url)
             prev_html_file == PrevHtmlFile(prev_pages[j])
             curr_normalized == Normalize(temp[i].html)
             prev_normalized == Normalize(dir[prev_html_file])
         IN  IF j = 0 THEN Verdict(TRUE, TRUE, normalized, NoDump)
             ELSE IF prev_html_file \notin DOMAIN dir
             THEN Verdict(TRUE, TRUE, normalized, NoDump)
             ELSE IF curr_normalized # prev_normalized
             THEN Verdict(TRUE, TRUE, Append(normalized, i),
                          [written |-> TRUE, current |-> curr_normalized,
                           previous |-> prev_normalized])
             ELSE CompareFromFailedIsChange(temp, dir, prev_pages, i + 1,
                                            Append(normalized, i))

RECURSIVE CompareFromChecksAll(_, _, _, _, _)
\* the loop of lines 480-551 going on after a mismatch (no return at
\* line 548) and answering at the end
CompareFromChecksAll(temp, dir, prev_pages, i, normalized) ==
    IF i > Len(temp) THEN Verdict(FALSE, TRUE, normalized, NoDump)
    ELSE IF temp[i].status # "success"
    THEN CompareFromChecksAll(temp, dir, prev_pages, i + 1, normalized)
    ELSE LET j == FindPrevPage(prev_pages, temp[i].url)
             prev_html_file == PrevHtmlFile(prev_pages[j])
             curr_normalized == Normalize(temp[i].html)
             prev_normalized == Normalize(dir[prev_html_file])
             rest == CompareFromChecksAll(temp, dir, prev_pages, i + 1,
                                          Append(normalized, i))
         IN  IF j = 0 THEN Verdict(TRUE, TRUE, normalized, NoDump)
             ELSE IF prev_html_file \notin DOMAIN dir
             THEN Verdict(TRUE, TRUE, normalized, NoDump)
             ELSE IF curr_normalized # prev_normalized
             THEN Verdict(TRUE, TRUE, rest.normalized,
                          [written |-> TRUE, current |-> curr_normalized,
                           previous |-> prev_normalized])
             ELSE rest

RECURSIVE CompareFrom(_, _, _, _, _)
\* the loop of _has_content_changed_from_temp, lines 480-551, from candidate
\* i on; normalized lists the candidates normalized so far
CompareFrom(temp, dir, prev_pages, i, normalized) ==
    IF i > Len(temp) THEN Verdict(FALSE, TRUE, normalized, NoDump)
    ELSE IF temp[i].status # "success"
    THEN CompareFrom(temp, dir, prev_pages, i + 1, normalized)
    ELSE LET j == FindPrevPage(prev_pages, temp[i].url)
             prev_html_file == PrevHtmlFile(prev_pages[j])
             curr_normalized == Normalize(temp[i].html)
             prev_normalized == Normalize(dir[prev_html_file])
         IN  IF j = 0 THEN Verdict(TRUE, TRUE, normalized, NoDump)
             ELSE IF prev_html_file \notin DOMAIN dir
             THEN Verdict(TRUE, TRUE, normalized, NoDump)
             ELSE IF curr_normalized # prev_normalized
             THEN Verdict(TRUE, TRUE, Append(normalized, i),
                          [written |-> TRUE, current |-> curr_normalized,
                           previous |-> prev_normalized])
             ELSE CompareFrom(temp, dir, prev_pages, i + 1, Append(normalized, i))

\* _has_content_changed_from_temp answering a first run by whether any page
\* was fetched, instead of lines 459-461
HasChangedFirstRunByContent(temp, snaps) ==
    LET previous_snapshot == MostRecentSnapshot(snaps)
        dir == snaps[previous_snapshot]
        previous_manifest == dir[ManifestName]
    IN  IF previous_snapshot = NoSnapshot
        THEN Verdict(\E i \in 1..Len(temp) : temp[i].status = "success",
                     FALSE, <<>>, NoDump)
        ELSE IF ManifestName \notin DOMAIN dir
        THEN Verdict(TRUE, FALSE, <<>>, NoDump)
        ELSE IF Len(temp) # Len(previous_manifest.pages)
        THEN Verdict(TRUE, TRUE, <<>>, NoDump)
        ELSE CompareFrom(temp, dir, previous_manifest.pages, 1, <<>>)

\* _has_content_changed_from_temp without the count test of lines 474-477
HasChangedNoCountTest(temp, snaps) ==
    LET previous_snapshot == MostRecentSnapshot(snaps)
        dir == snaps[previous_snapshot]
        previous_manifest == dir[ManifestName]
    IN  IF previous_snapshot = NoSnapshot
        THEN Verdict(TRUE, FALSE, <<>>, NoDump)
        ELSE IF ManifestName \notin DOMAIN dir
        THEN Verdict(TRUE, FALSE, <<>>, NoDump)
        ELSE CompareFrom(temp, dir, previous_manifest.pages, 1, <<>>)

\* _has_content_changed_from_temp, lines 455-551
HasChangedFromTemp(temp, snaps) ==
    LET previous_snapshot == MostRecentSnapshot(snaps)
        dir == snaps[previous_snapshot]
        previous_manifest == dir[ManifestName]
    IN  IF previous_snapshot = NoSnapshot
        THEN Verdict(TRUE, FALSE, <<>>, NoDump)
        ELSE IF ManifestName \notin DOMAIN dir
        THEN Verdict(TRUE, FALSE, <<>>, NoDump)
        ELSE IF Len(temp) # Len(previous_manifest.pages)
        THEN Verdict(TRUE, TRUE, <<>>, NoDump)
        ELSE CompareFrom(temp, dir, previous_manifest.pages, 1, <<>>)

RECURSIVE SummaryFrom(_, _, _, _)
\* the loop of _generate_change_summary, lines 581-637: one entry per page
\* reported (the length figures of lines 620-634 are not kept)
SummaryFrom(temp, dir, prev_pages, i) ==
    IF i > Len(temp) THEN <<>>
    ELSE LET rest == SummaryFrom(temp, dir, prev_pages, i + 1)
             j == FindPrevPage(prev_pages, temp[i].url)
             prev_html_file == PrevHtmlFile(prev_pages[j])
         IN  IF temp[i].status # "success" THEN rest
             ELSE IF j = 0
             THEN <<[what |-> "NEW PAGE ADDED", url |-> temp[i].url]>> \o rest
             ELSE IF prev_html_file \notin DOMAIN dir THEN rest
             ELSE IF Normalize(temp[i].html) # Normalize(dir[prev_html_file])
             THEN <<[what |-> "CHANGES DETECTED", url |-> temp[i].url]>> \o rest
             ELSE rest

\* _generate_change_summary, lines 553-658: the text of CHANGES.txt
ChangeSummary(temp, snaps) ==
    LET previous_snapshot == MostRecentSnapshot(snaps)
        dir == snaps[previous_snapshot]
    IN  IF previous_snapshot = NoSnapshot
        THEN [headline |-> "INITIAL SNAPSHOT", compared_to |-> NoSnapshot,
              entries |-> <<>>, monitored |-> Len(temp)]
        ELSE IF ManifestName \notin DOMAIN dir
        THEN [headline |-> "Previous snapshot incomplete",
              compared_to |-> previous_snapshot,
              entries |-> <<>>, monitored |-> Len(temp)]
        ELSE [headline |-> "Compared to", compared_to |-> previous_snapshot,
              entries |-> SummaryFrom(temp, dir, dir[ManifestName].pages, 1),
              monitored |-> Len(temp)]

\* ------------------------------------------------------------------ upload
\* the steps of _upload_to_internet_archive that can raise, in order:
\* tempfile.mkdtemp (line 337), the copies of _create_bundled_snapshot
\* (lines 340-403), shutil.make_archive (line 761), self.ia.upload
\* (line 769), shutil.rmtree (line 778), zip_path.unlink (line 779);
\* "none": nothing raised
UploadSteps == {"mkdtemp", "bundle", "zip", "upload", "rmtree", "unlink", "none"}

\* what a call leaves outside the snapshot tree: the bundle directory under
\* the temp directory and the zip file in output_dir
LeftBehind(failed_at) ==
    CASE failed_at = "mkdtemp" -> {}
      [] failed_at = "bundle"  -> {"bundle_dir"}
      [] failed_at = "zip"     -> {"bundle_dir"}
      [] failed_at = "upload"  -> {"bundle_dir", "zip_file"}
      [] failed_at = "rmtree"  -> {"bundle_dir", "zip_file"}
      [] failed_at = "unlink"  -> {"zip_file"}
      [] OTHER                 -> {}

\* manifest['internet_archive_url'] = ia_url, line 785
WithArchiveUrl(mf) ==
    [timestamp |-> mf.timestamp, pages |-> mf.pages,
     internet_archive_url |-> mf.timestamp]

\* the snapshot tree after an upload that writes the URL whatever happened
AfterUploadAlwaysMarks(snaps, ts, mf, failed_at) ==
    [snaps EXCEPT ![ts] = Put(@, ManifestName, WithArchiveUrl(mf))]

\* the snapshot tree after _upload_to_internet_archive: lines 784-788 are
\* reached only when nothing before them raised
AfterUpload(snaps, ts, mf, failed_at) ==
    IF failed_at = "none"
    THEN [snaps EXCEPT ![ts] = Put(@, ManifestName, WithArchiveUrl(mf))]
    ELSE snaps

NoUpload == [ran |-> FALSE, failed_at |-> "none", left |-> {}, before |-> EmptyDir]

\* ---------------------------------------------------------------- inputs
RECURSIVE SeqsUpTo(_, _)
SeqsUpTo(S, n) ==
    IF n = 0 THEN {<<>>}
    ELSE LET shorter == SeqsUpTo(S, n - 1)
         IN  shorter \cup {Append(q, x) : q \in shorter, x \in S}

Distinct(q) == \A i, j \in 1..Len(q) : i # j => q[i] # q[j]

\* the page lists snapshot() is called with
PageLists ==
    {q \in SeqsUpTo(Entries, MaxPages) : Distinct(MapSeq(Resolve, q))}

\* the documents the site may serve at a URL
Serves(url) == IF url = UrlA THEN {DocA, DocA2} ELSE {DocB}

\* what requests.get(page_url) + raise_for_status() + response.text give
FetchResults(url) ==
    {[ok |-> FALSE, text |-> <<>>]} \cup {[ok |-> TRUE, text |-> d] : d \in Serves(url)}

\* what _download_asset gives inside a run
DownloadResults == {DownloadFailed, Downloaded("b1"), Downloaded("b2")}

\* the documents _normalize_html_for_comparison is called with on its own.
\* A document is written from an outline: at each place either one fixed
\* node, or one of several spellings of a relative-time phrase, of a link
\* with or without a tracking parameter, or of a challenge token.
FixedNodes ==
    {Text("txt", "news"), Text("ws", " "), Text("num", "5"), Text("unit", "days"),
     Tag("img", "facebook.com/tr", "", <<>>, "dq")}

\* "5 days ago" and "3 h."
TimePhrases ==
    { <<Text("num", "5"), Text("ws", " "), Text("unit", "days"), Text("ws", " "),
        Text("ago", "ago")>>,
      <<Text("num", "3"), Text("ws", " "), Text("unit", "h.")>> }

\* <a href="/p?id=7">, <a href="/p?_gl=t1&id=7">, <a href="/p?id=7&_gl=t2">
LinkSpellings ==
    { <<Tag("a", "/p", "", << <<"id", "7">> >>, "dq")>>,
      <<Tag("a", "/p", "", << <<"_gl", "t1">>, <<"id", "7">> >>, "dq")>>,
      <<Tag("a", "/p", "", << <<"id", "7">>, <<"_gl", "t2">> >>, "dq")>> }

\* r:'ab12' and r:'cd34'
TokenSpellings == { <<Text("cfr", "ab12")>>, <<Text("cfr", "cd34")>> }

OutlineItems ==
    {{<<n>>} : n \in FixedNodes} \cup {TimePhrases, LinkSpellings, TokenSpellings}

RECURSIVE Spellings(_)
\* the documents written from an outline
Spellings(outline) ==
    IF outline = <<>> THEN {<<>>}
    ELSE {h \o r : h \in Head(outline), r \in Spellings(Tail(outline))}

\* two documents of one outline: they differ, if at all, only in how the
\* time phrases, tracking parameters and challenge tokens are spelled; n
\* bounds the length of the outline
DocPairs(n) ==
    UNION {{<<x, y>> : x \in Spellings(o), y \in Spellings(o)} :
              o \in SeqsUpTo(OutlineItems, n)}

\* ------------------------------------------------------------------- Init
\* __init__, lines 19-54: the directories exist and are empty, the cache is
\* what _load_asset_cache finds (nothing), snapshot() has not been called
InitState(upload, docs) ==
    /\ clock = 1
    /\ enable_internet_archive = upload
    /\ asset_cache = EmptyDir
    /\ cache_file = EmptyDir
    /\ asset_files = EmptyDir
    /\ snapshots = EmptyDir
    /\ debug_files = EmptyDir
    /\ pc = "idle"
    /\ timestamp = NoSnapshot
    /\ pages_to_archive = <<>>
    /\ temp_pages = <<>>
    /\ manifest = [timestamp |-> NoSnapshot, pages |-> <<>>]
    /\ result = NoSnapshot
    /\ runs = 0
    /\ pre = [snapshots |-> EmptyDir, asset_files |-> EmptyDir,
              cache_file |-> EmptyDir, asset_cache |-> EmptyDir,
              debug_files |-> EmptyDir]
    /\ prev_temp = <<>>
    /\ fetch_log = <<>>
    /\ asset_log = <<>>
    /\ write_log = <<>>
    /\ store_log = <<>>
    /\ detector = Verdict(FALSE, FALSE, <<>>, NoDump)
    /\ upload_log = NoUpload
    /\ normalizer = [docs |-> docs, calls |-> <<>>]
    /\ rewriter = <<>>
    /\ loop = NotLooping
    /\ store_call = NoStoreCall(0, 0)

InitWith(upload) == InitState(upload, <<>>)

\* WebsiteArchiver(base_url): enable_internet_archive=False, line 19
Init == InitWith(FALSE)

\* WebsiteArchiver(base_url, enable_internet_archive=True)
InitUpload == InitWith(TRUE)

\* ---------------------------------------------------------------- actions
\* the clock advances by a second.  The code reads it at line 218 and at
\* line 520 only, so a second that passes anywhere else is one that passes
\* just before the next of these reads.
Tick ==
    /\ clock < MaxClock
    /\ \/ pc \in {"done", "aborted"} /\ runs < MaxRuns
       \/ pc = "check"
    /\ clock' = clock + 1
    /\ UNCHANGED <<enable_internet_archive, store_call, loop, rewriter, upload_log, normalizer,
                   store_vars, snapshots, debug_files,
                   pc, run_vars, result, runs, pre, prev_temp, fetch_log,
                   asset_log, write_log, detector>>

\* snapshot(), lines 216-227, entered with the given page list
Enter(pages) ==
    /\ pc \in {"idle", "done", "aborted"}
    /\ runs < MaxRuns
    /\ runs' = runs + 1
    /\ timestamp' = clock
    /\ pages_to_archive' = pages
    /\ temp_pages' = <<>>
    /\ prev_temp' = temp_pages
    /\ manifest' = [timestamp |-> NoSnapshot, pages |-> <<>>]
    /\ pre' = Tree
    /\ detector' = Verdict(FALSE, FALSE, <<>>, NoDump)
    /\ fetch_log' = <<>>
    /\ asset_log' = <<>>
    /\ write_log' = <<>>
    /\ upload_log' = NoUpload
    /\ pc' = IF pages = <<>> THEN "check" ELSE "fetch"
    /\ UNCHANGED <<clock, enable_internet_archive, store_call, rewriter, normalizer, store_vars,
                   snapshots, debug_files, result>>

\* snapshot(pages)
StartSnapshot ==
    /\ loop = NotLooping
    /\ \E pages \in PageLists : Enter(pages)
    /\ UNCHANGED loop

\* snapshot(): pages_to_archive defaults to [self.base_url], lines 223-224
StartSnapshotDefault ==
    /\ loop = NotLooping
    /\ Enter(<<AbsEntry(Url(<<>>, ""))>>)
    /\ UNCHANGED loop

\* the loop of lines 228-253 asking twice for every page
FetchPageTwice ==
    /\ pc = "fetch"
    /\ LET i == Len(temp_pages) + 1
           page_url == Resolve(pages_to_archive[i])
       IN  /\ \E response \in FetchResults(page_url) :
                /\ temp_pages' =
                      Append(temp_pages,
                             IF response.ok THEN FetchedPage(page_url, response.text)
                             ELSE FailedPage(page_url))
                /\ fetch_log' =
                      fetch_log \o <<[url |-> page_url, ok |-> response.ok],
                                     [url |-> page_url, ok |-> response.ok]>>
           /\ pc' = IF i = Len(pages_to_archive) THEN "check" ELSE "fetch"
    /\ UNCHANGED <<clock, enable_internet_archive, store_call, loop, rewriter, upload_log, normalizer,
                   store_vars, snapshots,
                   debug_files, timestamp, pages_to_archive, manifest, result,
                   runs, pre, prev_temp, asset_log, write_log, detector>>

\* the loop of lines 228-253 left at the first failure
FetchPageStopsAtFailure ==
    /\ pc = "fetch"
    /\ LET i == Len(temp_pages) + 1
           page_url == Resolve(pages_to_archive[i])
       IN  \E response \in FetchResults(page_url) :
             /\ temp_pages' =
                   Append(temp_pages,
                          IF response.ok THEN FetchedPage(page_url, response.text)
                          ELSE FailedPage(page_url))
             /\ fetch_log' = Append(fetch_log, [url |-> page_url, ok |-> response.ok])
             /\ pc' = IF i = Len(pages_to_archive) \/ ~response.ok
                      THEN "check" ELSE "fetch"
    /\ UNCHANGED <<clock, enable_internet_archive, store_call, loop, rewriter, upload_log, normalizer,
                   store_vars, snapshots,
                   debug_files, timestamp, pages_to_archive, manifest, result,
                   runs, pre, prev_temp, asset_log, write_log, detector>>

\* the loop of lines 228-253 creating the snapshot directory as soon as a
\* page has been fetched
FetchPageMakesDir ==
    /\ pc = "fetch"
    /\ LET i == Len(temp_pages) + 1
           page_url == Resolve(pages_to_archive[i])
       IN  /\ \E response \in FetchResults(page_url) :
                /\ temp_pages' =
                      Append(temp_pages,
                             IF response.ok THEN FetchedPage(page_url, response.text)
                             ELSE FailedPage(page_url))
                /\ fetch_log' = Append(fetch_log, [url |-> page_url, ok |-> response.ok])
           /\ pc' = IF i = Len(pages_to_archive) THEN "check" ELSE "fetch"
    /\ snapshots' =
           IF timestamp \in DOMAIN snapshots THEN snapshots
           ELSE Put(snapshots, timestamp, EmptyDir)
    /\ UNCHANGED <<clock, enable_internet_archive, store_call, loop, rewriter, upload_log, normalizer,
                   store_vars,
                   debug_files, timestamp, pages_to_archive, manifest, result,
                   runs, pre, prev_temp, asset_log, write_log, detector>>

\* one turn of the loop of lines 228-253
FetchPage ==
    /\ pc = "fetch"
    /\ LET i == Len(temp_pages) + 1
           page_url == Resolve(pages_to_archive[i])
       IN  \* requests.get + raise_for_status, and the except branch
           /\ \E response \in FetchResults(page_url) :
                /\ temp_pages' =
                      Append(temp_pages,
                             IF response.ok THEN FetchedPage(page_url, response.text)
                             ELSE FailedPage(page_url))
                /\ fetch_log' = Append(fetch_log, [url |-> page_url, ok |-> response.ok])
           /\ pc' = IF i = Len(pages_to_archive) THEN "check" ELSE "fetch"
    /\ UNCHANGED <<clock, enable_internet_archive, store_call, loop, rewriter, upload_log, normalizer,
                   store_vars, snapshots,
                   debug_files, timestamp, pages_to_archive, manifest, result,
                   runs, pre, prev_temp, asset_log, write_log, detector>>

\* the change decision without the return of line 260
CheckChangedNoReturn ==
    /\ pc = "check"
    /\ LET verdict == HasChangedFromTemp(temp_pages, snapshots)
       IN  /\ detector' = verdict
           /\ debug_files' =
                  IF verdict.dump.written
                  THEN Put(debug_files, clock,
                           [current |-> verdict.dump.current,
                            previous |-> verdict.dump.previous])
                  ELSE debug_files
           /\ pc' = "mkdir"
    /\ UNCHANGED <<clock, enable_internet_archive, store_call, loop, rewriter, upload_log, normalizer,
                   store_vars, snapshots,
                   run_vars, result, runs, pre, prev_temp, fetch_log, asset_log,
                   write_log>>

\* lines 255-265: the change decision; the debug dump of lines 517-527 is
\* named by the clock at that moment
CheckChanged ==
    /\ pc = "check"
    /\ LET verdict == HasChangedFromTemp(temp_pages, snapshots)
       IN  /\ detector' = verdict
           /\ debug_files' =
                  IF verdict.dump.written
                  THEN Put(debug_files, clock,
                           [current |-> verdict.dump.current,
                            previous |-> verdict.dump.previous])
                  ELSE debug_files
           /\ IF verdict.changed
              THEN pc' = "mkdir" /\ UNCHANGED result
              ELSE pc' = "done" /\ result' = NoSnapshot
    /\ UNCHANGED <<clock, enable_internet_archive, store_call, loop, rewriter, upload_log, normalizer,
                   store_vars, snapshots,
                   run_vars, runs, pre, prev_temp, fetch_log, asset_log,
                   write_log>>

\* lines 267-275: snapshot_dir.mkdir(exist_ok=True) and the empty manifest
MakeSnapshotDir ==
    /\ pc = "mkdir"
    /\ snapshots' =
           IF timestamp \in DOMAIN snapshots THEN snapshots
           ELSE Put(snapshots, timestamp, EmptyDir)
    /\ manifest' = [timestamp |-> timestamp, pages |-> <<>>]
    /\ pc' = IF temp_pages = <<>> THEN "manifest" ELSE "build"
    /\ UNCHANGED <<clock, enable_internet_archive, store_call, loop, rewriter, upload_log, normalizer,
                   store_vars, debug_files,
                   timestamp, pages_to_archive, temp_pages, result, runs, pre,
                   prev_temp, fetch_log, asset_log, write_log, detector>>

PageWrite(i, name, content) == [page |-> i, name |-> name, content |-> content]

\* one turn of the loop of lines 277-312 (the store changes inside
\* _rewrite_html come first, then the two page files, then the record)
BuildPage ==
    /\ pc = "build"
    /\ LET i == Len(manifest.pages) + 1
           temp_page == temp_pages[i]
           next_pc == IF i = Len(temp_pages) THEN "manifest" ELSE "build"
       IN  IF temp_page.status = "success"
           THEN \E dl \in [AssetTags(temp_page.html) -> DownloadResults] :
                  LET rw == RewriteHtml(temp_page.html, dl, asset_cache,
                                        cache_file, asset_files)
                      path == FileNameOf(temp_page.url)
                      original_file == OriginalNameOf(path)
                  IN  /\ asset_cache' = rw.cache
                      /\ cache_file' = rw.disk
                      /\ asset_files' = rw.files
                      /\ store_log' = store_log \o rw.stored
                      /\ asset_log' = asset_log \o rw.requested
                      /\ IF CanOpenForWrite(path)
                         THEN /\ snapshots' =
                                    [snapshots EXCEPT ![timestamp] =
                                        Put(Put(@, path, rw.html),
                                            original_file, temp_page.html)]
                              /\ write_log' =
                                    write_log \o
                                    <<PageWrite(i, path, rw.html),
                                      PageWrite(i, original_file, temp_page.html)>>
                              /\ manifest' =
                                    [manifest EXCEPT !.pages =
                                        Append(@, SuccessRecord(temp_page.url, path,
                                                   BaseName(original_file), rw.assets))]
                              /\ pc' = next_pc
                         ELSE \* open() raises FileNotFoundError, snapshot() with it
                              /\ pc' = "aborted"
                              /\ UNCHANGED <<snapshots, write_log, manifest>>
           ELSE /\ manifest' = [manifest EXCEPT !.pages = Append(@, FailedRecord(temp_page))]
                /\ pc' = next_pc
                /\ UNCHANGED <<store_vars, snapshots, asset_log, write_log>>
    /\ UNCHANGED <<clock, enable_internet_archive, store_call, loop, rewriter, upload_log, normalizer,
                   debug_files, timestamp, pages_to_archive, temp_pages, result,
                   runs, pre, prev_temp, fetch_log, detector>>

\* lines 314-317
WriteManifest ==
    /\ pc = "manifest"
    /\ snapshots' = [snapshots EXCEPT ![timestamp] = Put(@, ManifestName, manifest)]
    /\ pc' = "summary"
    /\ UNCHANGED <<clock, enable_internet_archive, store_call, loop, rewriter, upload_log, normalizer,
                   store_vars, debug_files,
                   run_vars, result, runs, pre, prev_temp, fetch_log, asset_log,
                   write_log, detector>>

\* line 320 and lines 651-654, then lines 322-330 when no upload is configured
GenerateChangeSummary ==
    /\ pc = "summary"
    /\ snapshots' =
           [snapshots EXCEPT ![timestamp] =
               Put(@, ChangesName, ChangeSummary(temp_pages, snapshots))]
    /\ IF enable_internet_archive
       THEN pc' = "upload" /\ UNCHANGED result
       ELSE pc' = "done" /\ result' = timestamp
    /\ UNCHANGED <<clock, enable_internet_archive, store_call, loop, rewriter, upload_log, normalizer,
                   store_vars, debug_files,
                   run_vars, runs, pre, prev_temp, fetch_log, asset_log,
                   write_log, detector>>

\* line 327 and _upload_to_internet_archive, lines 731-792, then line 330:
\* the step that raises (or none) is the collaborators' choice; the except
\* clause of lines 790-792 catches it, and snapshot() returns snapshot_dir
Upload ==
    /\ pc = "upload"
    /\ \E failed_at \in UploadSteps :
          /\ snapshots' = AfterUpload(snapshots, timestamp, manifest, failed_at)
          /\ upload_log' = [ran |-> TRUE, failed_at |-> failed_at,
                            left |-> LeftBehind(failed_at), before |-> snapshots]
    /\ pc' = "done"
    /\ result' = timestamp
    /\ UNCHANGED <<clock, enable_internet_archive, store_call, loop, rewriter, normalizer, store_vars,
                   debug_files, run_vars, runs, pre, prev_temp, fetch_log,
                   asset_log, write_log, detector>>

Next ==
    \/ Tick
    \/ StartSnapshot
    \/ StartSnapshotDefault
    \/ FetchPage
    \/ CheckChanged
    \/ MakeSnapshotDir
    \/ BuildPage
    \/ WriteManifest
    \/ GenerateChangeSummary

Spec == Init /\ [][Next]_vars

NextUpload == Next \/ Upload

\* -------------------------------------------------- the asset store alone
\* the references store() is called with
StoreRefs ==
    {Tag("img", "/logo", ".png", <<>>, "dq"),
     Tag("script", "/app", ".js", <<>>, "dq"),
     Tag("link", "/site", "", <<>>, "dq")}

\* a caller's _save_asset(url, content)
StoreCall ==
    /\ Len(store_log) < MaxStores
    /\ \E ref \in StoreRefs, content \in Bodies :
          LET saved == SaveAsset(asset_cache, cache_file, asset_files, ref, content)
          IN  /\ asset_cache' = saved.cache
              /\ cache_file' = saved.disk
              /\ asset_files' = saved.files
              /\ store_log' =
                    Append(store_log,
                           StoreCallRecord(ref, content, saved, asset_cache, asset_files))
    /\ UNCHANGED <<clock, enable_internet_archive, store_call, loop, rewriter, upload_log, normalizer,
                   snapshots, debug_files, pc,
                   run_vars, result, runs, pre, prev_temp, fetch_log, asset_log,
                   write_log, detector>>

SpecStore == Init /\ [][StoreCall]_vars

SpecUpload == InitUpload /\ [][NextUpload]_vars

\* ---------------------------------------------------- the normalizer alone
NormalizerCall(html) == [html |-> html, text |-> Normalize(html)]

\* _normalize_html_for_comparison(html) for the next of the two documents
NormalizeDoc ==
    /\ Len(normalizer.calls) < Len(normalizer.docs)
    /\ normalizer' =
           [normalizer EXCEPT !.calls =
               Append(@, NormalizerCall(normalizer.docs[Len(@) + 1]))]
    /\ UNCHANGED <<clock, enable_internet_archive, store_call, loop, rewriter, upload_log, store_vars,
                   snapshots, debug_files, pc, run_vars, result, runs, pre,
                   prev_temp, fetch_log, asset_log, write_log, detector>>

\* _normalize_html_for_comparison called on what it returned for a document
NormalizeAgain ==
    /\ Len(normalizer.docs) > 0
    /\ Len(normalizer.calls) >= Len(normalizer.docs)
    /\ Len(normalizer.calls) < 2 * Len(normalizer.docs)
    /\ normalizer' =
           [normalizer EXCEPT !.calls =
               Append(@, NormalizerCall(@[Len(@) + 1 - Len(normalizer.docs)].text))]
    /\ UNCHANGED <<clock, enable_internet_archive, store_call, loop, rewriter, upload_log, store_vars,
                   snapshots, debug_files, pc, run_vars, result, runs, pre,
                   prev_temp, fetch_log, asset_log, write_log, detector>>

InitNormalize == \E docs \in DocPairs(MaxNodes) : InitState(FALSE, docs)

NextNormalize == NormalizeDoc \/ NormalizeAgain

SpecNormalize == InitNormalize /\ [][NextNormalize]_vars

\* ------------------------------------------- after an incomplete snapshot
\* what a run that stopped between line 268 and line 316 leaves in its
\* directory: nothing, or the two files of the one page it had written
PartialDirs ==
    {EmptyDir,
     Put(Put(EmptyDir, FileNameOf(UrlA), MapSeq(Serialize, DocA)),
         OriginalNameOf(FileNameOf(UrlA)), DocA)}

\* the archiver after such a run: snapshot directory 1 without manifest,
\* nothing in the asset store, snapshot() left by an exception; the run
\* counter and the logs start again for the runs that follow
InitRecover ==
    /\ \E dir \in PartialDirs : snapshots = Put(EmptyDir, 1, dir)
    /\ clock = 1
    /\ enable_internet_archive = FALSE
    /\ asset_cache = EmptyDir
    /\ cache_file = EmptyDir
    /\ asset_files = EmptyDir
    /\ debug_files = EmptyDir
    /\ pc = "aborted"
    /\ timestamp = 1
    /\ pages_to_archive = <<>>
    /\ temp_pages = <<>>
    /\ manifest = [timestamp |-> 1, pages |-> <<>>]
    /\ result = NoSnapshot
    /\ runs = 0
    /\ pre = [snapshots |-> EmptyDir, asset_files |-> EmptyDir,
              cache_file |-> EmptyDir, asset_cache |-> EmptyDir,
              debug_files |-> EmptyDir]
    /\ prev_temp = <<>>
    /\ fetch_log = <<>>
    /\ asset_log = <<>>
    /\ write_log = <<>>
    /\ store_log = <<>>
    /\ detector = Verdict(FALSE, FALSE, <<>>, NoDump)
    /\ upload_log = NoUpload
    /\ normalizer = [docs |-> <<>>, calls |-> <<>>]
    /\ rewriter = <<>>
    /\ loop = NotLooping
    /\ store_call = NoStoreCall(0, 0)

SpecRecover == InitRecover /\ [][Next]_vars

\* ------------------------------------------- the asset store, step by step
\* _save_asset(url, content) is entered, lines 87-94: a hash the index
\* knows returns its path at once; otherwise the call goes on to write
StoreBegin ==
    /\ store_call.at = "idle"
    /\ store_call.begun < MaxStores
    /\ \E ref \in StoreRefs, content \in Bodies :
          LET content_hash == GetFileHash(content)
              known == [path |-> asset_cache[content_hash], cache |-> asset_cache,
                        disk |-> cache_file, files |-> asset_files, wrote |-> FALSE]
          IN  IF content_hash \in DOMAIN asset_cache
              THEN /\ store_call' = NoStoreCall(store_call.begun + 1,
                                                store_call.interrupted)
                   /\ store_log' =
                         Append(store_log,
                                StoreCallRecord(ref, content, known, asset_cache,
                                                asset_files))
              ELSE /\ store_call' =
                         [at |-> "write", begun |-> store_call.begun + 1,
                          interrupted |-> store_call.interrupted,
                          ref |-> ref, content |-> content,
                          relative_path |-> RelativePath(content_hash, ExtOf(ref)),
                          cache_before |-> asset_cache,
                          files_before |-> asset_files]
                   /\ UNCHANGED store_log
    /\ UNCHANGED <<clock, enable_internet_archive, rewriter, loop, upload_log,
                   normalizer, asset_cache, cache_file, asset_files, snapshots,
                   debug_files, pc, run_vars, result, runs, pre, prev_temp,
                   fetch_log, asset_log, write_log, detector>>

\* lines 112-121 left out: the call goes on to the index without the file
StoreWriteFileSkipped ==
    /\ store_call.at = "write"
    /\ store_call' = [store_call EXCEPT !.at = "update"]
    /\ UNCHANGED <<clock, enable_internet_archive, rewriter, loop, upload_log,
                   normalizer, asset_cache, cache_file, asset_files, store_log,
                   snapshots, debug_files, pc, run_vars, result, runs, pre,
                   prev_temp, fetch_log, asset_log, write_log, detector>>

\* lines 112-121: the asset file is written
StoreWriteFile ==
    /\ store_call.at = "write"
    /\ asset_files' = Put(asset_files, store_call.relative_path, store_call.content)
    /\ store_call' = [store_call EXCEPT !.at = "update"]
    /\ UNCHANGED <<clock, enable_internet_archive, rewriter, loop, upload_log,
                   normalizer, asset_cache, cache_file, store_log,
                   snapshots, debug_files, pc, run_vars, result, runs, pre,
                   prev_temp, fetch_log, asset_log, write_log, detector>>

\* lines 124-125: the entry is added to self.asset_cache
StoreUpdateCache ==
    /\ store_call.at = "update"
    /\ asset_cache' = Put(asset_cache, GetFileHash(store_call.content),
                          store_call.relative_path)
    /\ store_call' = [store_call EXCEPT !.at = "persist"]
    /\ UNCHANGED <<clock, enable_internet_archive, rewriter, loop, upload_log,
                   normalizer, cache_file, asset_files, store_log,
                   snapshots, debug_files, pc, run_vars, result, runs, pre,
                   prev_temp, fetch_log, asset_log, write_log, detector>>

\* lines 126-129: _save_asset_cache() writes the index, and the call returns
StorePersist ==
    /\ store_call.at = "persist"
    /\ cache_file' = asset_cache
    /\ store_log' =
          Append(store_log,
                 StoreCallRecord(store_call.ref, store_call.content,
                                 [path |-> store_call.relative_path,
                                  cache |-> asset_cache, disk |-> asset_cache,
                                  files |-> asset_files, wrote |-> TRUE],
                                 store_call.cache_before, store_call.files_before))
    /\ store_call' = NoStoreCall(store_call.begun, store_call.interrupted)
    /\ UNCHANGED <<clock, enable_internet_archive, rewriter, loop, upload_log,
                   normalizer, asset_cache, asset_files,
                   snapshots, debug_files, pc, run_vars, result, runs, pre,
                   prev_temp, fetch_log, asset_log, write_log, detector>>

\* the call is left between two of its steps (KeyboardInterrupt, or the
\* process is stopped): what the steps taken so far did stays
StoreInterrupt ==
    /\ store_call.at \in {"write", "update", "persist"}
    /\ store_call' = NoStoreCall(store_call.begun, store_call.interrupted + 1)
    /\ UNCHANGED <<clock, enable_internet_archive, rewriter, loop, upload_log,
                   normalizer, store_vars,
                   snapshots, debug_files, pc, run_vars, result, runs, pre,
                   prev_temp, fetch_log, asset_log, write_log, detector>>

\* a new WebsiteArchiver on the same output tree, line 43 and lines 56-62:
\* the index in memory is what asset_cache.json holds
LoadAssetCache ==
    /\ store_call.at = "idle"
    /\ asset_cache' = cache_file
    /\ UNCHANGED <<clock, enable_internet_archive, rewriter, loop, upload_log,
                   normalizer, store_call, cache_file, asset_files, store_log,
                   snapshots, debug_files, pc, run_vars, result, runs, pre,
                   prev_temp, fetch_log, asset_log, write_log, detector>>

NextStoreSteps ==
    \/ StoreBegin
    \/ StoreWriteFile
    \/ StoreUpdateCache
    \/ StorePersist
    \/ StoreInterrupt
    \/ LoadAssetCache

SpecStoreSteps == Init /\ [][NextStoreSteps]_vars

\* ------------------------------------------------------ the scheduling loop
\* run_continuous(pages_to_archive), lines 815-821: the loop is entered, and
\* its first statement is the interval wait
RunContinuous ==
    /\ loop = NotLooping
    /\ pc = "idle"
    /\ \E pages \in PageLists :
          loop' = [at |-> "wait", pages |-> pages, interrupted |-> FALSE]
    /\ UNCHANGED <<clock, enable_internet_archive, store_call, rewriter, upload_log, normalizer,
                   store_vars, snapshots, debug_files, pc, run_vars, result,
                   runs, pre, prev_temp, fetch_log, asset_log, write_log,
                   detector>>

\* lines 824-827: time.sleep(wait_seconds) of _wait_until_next_interval
\* returns and snapshot(pages_to_archive) is entered
LoopSnapshot ==
    /\ loop.at = "wait"
    /\ Enter(loop.pages)
    /\ loop' = [loop EXCEPT !.at = "run"]

\* lines 827-830: snapshot() returned (a directory or None); the loop goes
\* round to the next interval wait
LoopReturned ==
    /\ loop.at = "run"
    /\ pc = "done"
    /\ loop' = [loop EXCEPT !.at = "wait"]
    /\ UNCHANGED <<clock, enable_internet_archive, store_call, rewriter, upload_log, normalizer,
                   store_vars, snapshots, debug_files, pc, run_vars, result,
                   runs, pre, prev_temp, fetch_log, asset_log, write_log,
                   detector>>

\* lines 835-838: snapshot() raised an Exception; the handler logs it and
\* starts time.sleep(300)
LoopFailed ==
    /\ loop.at = "run"
    /\ pc = "aborted"
    /\ loop' = [loop EXCEPT !.at = "retry_wait"]
    /\ UNCHANGED <<clock, enable_internet_archive, store_call, rewriter, upload_log, normalizer,
                   store_vars, snapshots, debug_files, pc, run_vars, result,
                   runs, pre, prev_temp, fetch_log, asset_log, write_log,
                   detector>>

\* line 838 returns after five minutes; `while True` goes round
LoopRetry ==
    /\ loop.at = "retry_wait"
    /\ loop' = [loop EXCEPT !.at = "wait"]
    /\ UNCHANGED <<clock, enable_internet_archive, store_call, rewriter, upload_log, normalizer,
                   store_vars, snapshots, debug_files, pc, run_vars, result,
                   runs, pre, prev_temp, fetch_log, asset_log, write_log,
                   detector>>

\* where a KeyboardInterrupt raised at position `at` of the loop takes it:
\* the try block of lines 823-830 is covered by the handler of lines
\* 832-834 ("Archiver stopped by user", break); the time.sleep(300) of line
\* 838 stands in the `except Exception` handler, outside the try, so an
\* interrupt there leaves run_continuous as an exception
AfterInterrupt(at) == IF at = "retry_wait" THEN "raised" ELSE "stopped"

\* a KeyboardInterrupt (Ctrl-C) while run_continuous is running.  Inside
\* snapshot() no handler catches it (lines 83, 208, 247 and 790 catch
\* Exception), so a run in progress is left where it stands.
LoopInterrupt ==
    /\ loop.at \in {"wait", "run", "retry_wait"}
    /\ loop.at = "run" => pc # "aborted"
    /\ loop' = [loop EXCEPT !.at = AfterInterrupt(loop.at), !.interrupted = TRUE]
    /\ pc' = IF loop.at = "run" /\ pc # "done" THEN "aborted" ELSE pc
    /\ UNCHANGED <<clock, enable_internet_archive, store_call, rewriter, upload_log, normalizer,
                   store_vars, snapshots, debug_files, run_vars, result,
                   runs, pre, prev_temp, fetch_log, asset_log, write_log,
                   detector>>

NextLoop ==
    \/ Tick
    \/ RunContinuous
    \/ LoopSnapshot
    \/ FetchPage
    \/ CheckChanged
    \/ MakeSnapshotDir
    \/ BuildPage
    \/ WriteManifest
    \/ GenerateChangeSummary
    \/ LoopReturned
    \/ LoopFailed
    \/ LoopRetry
    \/ LoopInterrupt

SpecLoop == Init /\ [][NextLoop]_vars

\* ------------------------------------------------------ the rewriter alone
\* one _rewrite_html call as an observer sees it: the HTML given, the pair
\* returned, the asset requests and store calls made, the index before and
\* after
RewriterCall(html, rw, cache) ==
    [html |-> html, text |-> rw.html, assets_used |-> rw.assets,
     requested |-> rw.requested, stored |-> rw.stored,
     cache_before |-> cache, cache_after |-> rw.cache]

\* the pages _rewrite_html is called with on its own
RewriteDocs == {DocA, DocB, DocC}

\* a caller's _rewrite_html(html, page_url, snapshot_dir)
RewriteCall ==
    /\ Len(rewriter) < MaxRewrites
    /\ \E html \in RewriteDocs :
          \E dl \in [AssetTags(html) -> DownloadResults] :
             LET rw == RewriteHtml(html, dl, asset_cache, cache_file, asset_files)
             IN  /\ asset_cache' = rw.cache
                 /\ cache_file' = rw.disk
                 /\ asset_files' = rw.files
                 /\ store_log' = store_log \o rw.stored
                 /\ rewriter' = Append(rewriter, RewriterCall(html, rw, asset_cache))
    /\ UNCHANGED <<clock, enable_internet_archive, store_call, loop, upload_log, normalizer,
                   snapshots, debug_files, pc,
                   run_vars, result, runs, pre, prev_temp, fetch_log, asset_log,
                   write_log, detector>>

SpecRewrite == Init /\ [][RewriteCall]_vars

\* ================================================================= claims
\* the current run is past its change decision
Decided == runs >= 1 /\ pc \notin {"idle", "fetch", "check"}

\* the current run has written its manifest
ManifestWritten ==
    \/ pc = "summary"
    \/ pc = "upload"
    \/ pc = "done" /\ result # NoSnapshot

AllSuccess(temp) == \A i \in 1..Len(temp) : temp[i].status = "success"

\* the snapshot the detector of the current run compared with
Baseline == MostRecentSnapshot(pre.snapshots)

HasManifest(dir) == ManifestName \in DOMAIN dir

\* C1: two successive runs from an empty output tree over the same page list
\* of distinct URLs, the site serving the same HTML for each URL both times:
\* the first run creates one snapshot directory whose manifest has one record
\* per page, the second returns None and creates no directory.
C1_Stability ==
    (runs = 2 /\ Decided /\ temp_pages = prev_temp /\ AllSuccess(temp_pages))
    => /\ Cardinality(DOMAIN pre.snapshots) = 1
       /\ \A d \in DOMAIN pre.snapshots :
             /\ HasManifest(pre.snapshots[d])
             /\ Len(pre.snapshots[d][ManifestName].pages) = Len(temp_pages)
       /\ pc = "done"
       /\ result = NoSnapshot
       /\ DOMAIN snapshots = DOMAIN pre.snapshots

\* C1 for page lists whose derived file names are pairwise different and
\* free of slashes: there the stability holds (what is left of C1 once the
\* file-name faults are set aside; not the claim).
C1_StabilityApart ==
    LET names == MapSeq(LAMBDA tp : FileNameOf(tp.url), temp_pages)
    IN  (Distinct(names) /\ \A i \in 1..Len(names) : CanOpenForWrite(names[i]))
        => C1_Stability

\* C2: a run whose change detector returned false returns None, leaves the
\* snapshot directories, the manifests, the asset files, the cache index (in
\* memory and on disk) and the debug directory as it found them, and has
\* requested no asset.
C2_NoChangeWritesNothing ==
    (Decided /\ ~detector.changed)
    => /\ pc = "done"
       /\ result = NoSnapshot
       /\ Tree = pre
       /\ asset_log = <<>>

\* a no-change run over a page that was compared, with assets in the store
C2_Witness ==
    /\ Decided
    /\ ~detector.changed
    /\ detector.normalized # <<>>
    /\ DOMAIN asset_files # {}

\* C3: with no snapshot directory at the start of the run, the detector
\* returns true for every batch, loads no manifest and normalizes no page.
C3_FirstRun ==
    (Decided /\ DOMAIN pre.snapshots = {})
    => /\ detector.changed
       /\ ~detector.loaded
       /\ detector.normalized = <<>>

\* a first run whose two pages both failed to load
C3_Witness ==
    /\ Decided
    /\ DOMAIN pre.snapshots = {}
    /\ Len(temp_pages) = 2
    /\ \A i \in 1..2 : temp_pages[i].status = "failed"
    /\ detector.changed

\* a first run over the empty page list
C3_WitnessEmptyBatch ==
    Decided /\ DOMAIN pre.snapshots = {} /\ temp_pages = <<>> /\ detector.changed

\* C4: when the number of candidate pages differs from the number of page
\* records in the most recent snapshot's manifest, the detector returns true.
C4_PageCount ==
    (/\ Decided
     /\ Baseline # NoSnapshot
     /\ HasManifest(pre.snapshots[Baseline])
     /\ Len(temp_pages) # Len(pre.snapshots[Baseline][ManifestName].pages))
    => detector.changed

\* the previous manifest has two successful pages, the batch has one, and
\* that page normalizes to what is stored as its previous original
C4_Witness ==
    /\ Decided
    /\ Baseline # NoSnapshot
    /\ HasManifest(pre.snapshots[Baseline])
    /\ LET dir == pre.snapshots[Baseline]
           prev_pages == dir[ManifestName].pages
       IN  /\ Len(prev_pages) = 2
           /\ AllSuccess(prev_pages)
           /\ Len(temp_pages) = 1
           /\ AllSuccess(temp_pages)
           /\ LET j == FindPrevPage(prev_pages, temp_pages[1].url)
              IN  /\ j # 0
                  /\ prev_pages[j].original_file \in DOMAIN dir
                  /\ Normalize(dir[prev_pages[j].original_file])
                        = Normalize(temp_pages[1].html)
    /\ detector.changed

\* the store calls before the k-th that were given the same bytes
EarlierSame(k) == {j \in 1..(k - 1) : store_log[j].body = store_log[k].body}

SetMin(S) == CHOOSE x \in S : \A y \in S : x <= y

\* C5: a store call given bytes that an earlier call was given (under the
\* same or another URL) returns the path the first such call returned,
\* writes no file and leaves the index as it was; and two successive calls
\* that store new bytes under two URLs add exactly one index entry between
\* them.  Bytes are new when the first of the two calls registers them
\* (bytes whose truncated hash is already a key are the subject of C18).
C5_Dedup ==
    \A k \in 1..Len(store_log) :
        LET e == store_log[k]
        IN  /\ EarlierSame(k) # {}
               => /\ e.path = store_log[SetMin(EarlierSame(k))].path
                  /\ e.files_after = e.files_before
                  /\ e.index_after = e.index_before
            /\ (/\ k > 1
                /\ store_log[k - 1].body = e.body
                /\ store_log[k - 1].ref # e.ref
                /\ store_log[k - 1].index_after # store_log[k - 1].index_before)
               => /\ Cardinality(DOMAIN e.index_after)
                       = Cardinality(DOMAIN store_log[k - 1].index_before) + 1
                  /\ e.path = store_log[k - 1].path

\* bytes stored under one URL, other bytes stored, then the first bytes
\* again under another URL
C5_Witness ==
    /\ Len(store_log) = 3
    /\ store_log[1].body = store_log[3].body
    /\ store_log[1].body # store_log[2].body
    /\ store_log[1].ref # store_log[3].ref
    /\ store_log[3].path = store_log[1].path
    /\ Cardinality(DOMAIN asset_cache) = 2

\* new bytes stored twice in a row under two URLs
C5_WitnessTwoUrls ==
    /\ Len(store_log) = 3
    /\ store_log[2].body = store_log[3].body
    /\ store_log[2].ref # store_log[3].ref
    /\ store_log[2].index_after # store_log[2].index_before

\* a snapshot directory some run has finished writing
Finished(dir) == ChangesName \in DOMAIN dir

\* the current run has created (or reused) its snapshot directory
DirMade == Decided /\ pc # "mkdir" /\ detector.changed

\* C6: a run never changes a snapshot directory that an earlier run finished
\* writing, and a run that detects a change writes into a directory that
\* did not exist when the run began.
C6_Immutable ==
    runs >= 1
    => /\ \A d \in DOMAIN pre.snapshots :
             Finished(pre.snapshots[d]) => snapshots[d] = pre.snapshots[d]
       /\ DirMade => timestamp \notin DOMAIN pre.snapshots

\* C7: the CHANGES.txt of a new snapshot is the summary of the fetched
\* batch against the snapshot that was most recent when the run began (an
\* initial-snapshot report when there was none), never against the
\* directory this run has written.
C7_Baseline ==
    (pc = "done" /\ result # NoSnapshot)
    => LET changes == snapshots[timestamp][ChangesName]
       IN  /\ changes = ChangeSummary(temp_pages, pre.snapshots)
           /\ changes.compared_to # timestamp

\* r is what _rewrite_html makes of h: every node as serialized, asset tags
\* possibly pointing into the asset tree
IsRewriteOf(r, h) ==
    /\ Len(r) = Len(h)
    /\ \A i \in 1..Len(h) :
          \/ r[i] = Serialize(h[i])
          \/ /\ i \in AssetTags(h)
             /\ r[i].k = h[i].k
             /\ r[i].loc = "local"

RequestedUrls == [i \in 1..Len(fetch_log) |-> fetch_log[i].url]

\* C8: a run requests each entry of the page list exactly once, in list
\* order, all before the change decision; afterwards it requests no page,
\* and both files of a page are written from the HTML of that batch.
C8_SingleFetchBatch ==
    /\ pc = "fetch"
       => RequestedUrls =
            SubSeq(MapSeq(Resolve, pages_to_archive), 1, Len(temp_pages))
    /\ (runs >= 1 /\ pc # "fetch")
       => RequestedUrls = MapSeq(Resolve, pages_to_archive)
    /\ \A k \in 1..Len(write_log) :
          LET w == write_log[k]
              html == temp_pages[w.page].html
          IN  IF k % 2 = 1 THEN IsRewriteOf(w.content, html) ELSE w.content = html

\* a changed second run of two pages has written its four page files
C8_Witness ==
    /\ runs = 2
    /\ pc = "done"
    /\ Len(fetch_log) = 2
    /\ Len(write_log) = 4
    /\ \E k \in 1..Len(write_log) : \E i \in 1..Len(write_log[k].content) :
          write_log[k].content[i].loc = "local"

\* C9: a failed page request does not stop the batch: every entry is
\* requested, and a written manifest has one record per entry, in list
\* order, failed exactly where the request failed.
C9_FailureNeverAborts ==
    /\ (runs >= 1 /\ pc # "fetch")
       => /\ Len(fetch_log) = Len(pages_to_archive)
          /\ Len(temp_pages) = Len(pages_to_archive)
    /\ ManifestWritten
       => LET pages == snapshots[timestamp][ManifestName].pages
          IN  /\ Len(pages) = Len(pages_to_archive)
              /\ \A i \in 1..Len(pages) :
                    /\ pages[i].url = Resolve(pages_to_archive[i])
                    /\ pages[i].status \in {"success", "failed"}
                    /\ (pages[i].status = "failed") <=> ~fetch_log[i].ok

\* the first page failed, the second loaded, and the manifest is written
C9_Witness ==
    /\ ManifestWritten
    /\ Len(fetch_log) = 2
    /\ ~fetch_log[1].ok
    /\ fetch_log[2].ok
    /\ snapshots[timestamp][ManifestName].pages[1].status = "failed"
    /\ snapshots[timestamp][ManifestName].pages[2].status = "success"

\* C10: in every manifest on disk, a success record names a rewritten file
\* and an original file that both exist in that directory and differ, and a
\* failed record has no file, original_file or assets field.
C10_PageRecords ==
    \A d \in DOMAIN snapshots :
        HasManifest(snapshots[d])
        => \A i \in 1..Len(snapshots[d][ManifestName].pages) :
             LET rec == snapshots[d][ManifestName].pages[i]
             IN  IF rec.status = "success"
                 THEN /\ rec.file \in DOMAIN snapshots[d]
                      /\ rec.original_file \in DOMAIN snapshots[d]
                      /\ rec.file # rec.original_file
                 ELSE /\ rec.status = "failed"
                      /\ DOMAIN rec \cap {"file", "original_file", "assets"} = {}

\* a finished snapshot whose manifest has a success and a failed record
C10_Witness ==
    /\ pc = "done"
    /\ result # NoSnapshot
    /\ LET pages == snapshots[result][ManifestName].pages
       IN  /\ Len(pages) = 2
           /\ pages[1].status = "success"
           /\ pages[2].status = "failed"

\* every page request of the batch failed
AllFailed(temp) ==
    temp # <<>> /\ \A i \in 1..Len(temp) : temp[i].status = "failed"

\* C11: a run in which every page request failed never ends on the
\* no-change outcome (None returned after "NO CHANGES DETECTED"), whatever
\* the previous snapshot holds.
C11_FailedRunDistinct ==
    (Decided /\ AllFailed(temp_pages))
    => ~(pc = "done" /\ result = NoSnapshot /\ ~detector.changed)

\* the files of a snapshot directory other than its manifest
WithoutManifest(dir) == [n \in DOMAIN dir \ {ManifestName} |-> dir[n]]

\* C12: when a step of the upload raises (bundling, zipping, uploading,
\* cleanup), snapshot() still returns the snapshot directory and every
\* snapshot directory, with its page files, CHANGES.txt and manifest, is as
\* it was before the upload was attempted; the manifest on disk carries
\* internet_archive_url only when no step raised, and then nothing else of
\* the snapshot has changed.
C12_UploadFailureKeepsSnapshot ==
    (pc = "done" /\ upload_log.ran)
    => LET dir == snapshots[timestamp]
           was == upload_log.before[timestamp]
       IN  /\ result = timestamp
           /\ upload_log.failed_at # "none" => snapshots = upload_log.before
           /\ "internet_archive_url" \in DOMAIN dir[ManifestName]
                 <=> upload_log.failed_at = "none"
           /\ WithoutManifest(dir) = WithoutManifest(was)
           /\ dir[ManifestName].pages = was[ManifestName].pages
           /\ \A d \in DOMAIN snapshots \ {timestamp} :
                 snapshots[d] = upload_log.before[d]

\* the upload itself raised after a snapshot with a page file was written
C12_Witness ==
    /\ pc = "done"
    /\ upload_log.ran
    /\ upload_log.failed_at = "upload"
    /\ result = timestamp
    /\ write_log # <<>>
    /\ ChangesName \in DOMAIN snapshots[timestamp]

\* the cleanup raised after the upload went through
C12_WitnessCleanup ==
    pc = "done" /\ upload_log.ran /\ upload_log.failed_at = "unlink"

\* nothing raised: the manifest carries the URL
C12_WitnessUploaded ==
    /\ pc = "done"
    /\ upload_log.ran
    /\ upload_log.failed_at = "none"
    /\ "internet_archive_url" \in DOMAIN snapshots[timestamp][ManifestName]

C14_DecisionFirst ==
    /\ (runs >= 1 /\ ~Decided)
       => /\ snapshots = pre.snapshots
          /\ asset_files = pre.asset_files
          /\ cache_file = pre.cache_file
          /\ write_log = <<>>
          /\ asset_log = <<>>
    /\ (runs >= 1 /\ (\/ snapshots # pre.snapshots
                      \/ asset_files # pre.asset_files
                      \/ cache_file # pre.cache_file))
       => /\ Decided
          /\ detector.changed
          /\ Len(fetch_log) = Len(pages_to_archive)
          /\ Len(temp_pages) = Len(pages_to_archive)

\* a second run, two pages fetched, the detector has said "changed" and the
\* new directory has just been created beside the first run's
C14_Witness ==
    /\ runs = 2
    /\ pc = "build"
    /\ Len(fetch_log) = 2
    /\ detector.changed
    /\ detector.loaded
    /\ timestamp \in DOMAIN snapshots
    /\ ~(timestamp \in DOMAIN pre.snapshots)
    /\ DOMAIN pre.snapshots # {}

\* a second run still fetching, with the first run's snapshot on disk
C14_WitnessFetching ==
    /\ runs = 2
    /\ pc = "fetch"
    /\ Len(fetch_log) = 1
    /\ DOMAIN snapshots # {}
    /\ DOMAIN asset_files # {}

\* C15: normalizing what the normalizer returned gives it back unchanged:
\* every call whose argument is the result of an earlier call returns its
\* argument.
C15_Idempotent ==
    \A i, j \in 1..Len(normalizer.calls) :
        normalizer.calls[j].html = normalizer.calls[i].text
        => normalizer.calls[j].text = normalizer.calls[j].html

\* one previous snapshot holding prev as the original of page /a
StoredAs(prev) ==
    1 :> ( ManifestName :>
               [timestamp |-> 1,
                pages |-> <<SuccessRecord(UrlA, <<"a", ".html">>,
                                          <<"a", "_original", ".html">>, <<>>)>>]
           @@ <<"a", "_original", ".html">> :> prev )

\* C16: two documents that differ only in tracking parameters of href/src
\* values, in a relative-time phrase or in challenge tokens normalize to the
\* same text, and the change detector, given one as the stored original and
\* the other as the fetched page, returns false.
C16_NoiseInvariant ==
    Len(normalizer.calls) >= 2
    => /\ normalizer.calls[1].text = normalizer.calls[2].text
       /\ ~HasChangedFromTemp(<<FetchedPage(UrlA, normalizer.docs[2])>>,
                              StoredAs(normalizer.docs[1])).changed

\* the file name the derivation is described to give: index.html for the
\* root, otherwise the stripped path with every slash turned into an
\* underscore, ending in .html
FlatName(url) ==
    LET stripped == Strip(url.path)
        flat == MapSeq(SlashToUnderscore, stripped)
    IN  IF stripped = <<>> THEN <<"index", ".html">>
        ELSE IF Last(flat) = ".html" THEN flat
        ELSE flat \o <<".html">>

\* C17: for every page the build loop has handled, the derived file name is
\* index.html for the root path and otherwise the stripped path with every
\* slash replaced by an underscore, ending in .html; it holds no slash, so
\* no run stops at opening a page file.
C17_FileName ==
    /\ pc # "aborted"
    /\ \A i \in 1..Len(manifest.pages) :
          manifest.pages[i].status = "success"
          => LET name == manifest.pages[i].file
             IN  /\ name = FileNameOf(manifest.pages[i].url)
                 /\ name = FlatName(manifest.pages[i].url)
                 /\ CanOpenForWrite(name)
                 /\ Last(name) = ".html"

\* C18: over every sequence of store calls, two calls return the same path
\* exactly when they were given the same bytes, and the file at the path a
\* call returned holds the bytes given to that call, when the call returns
\* and ever after.
C18_OneFilePerContent ==
    \A k \in 1..Len(store_log) :
        /\ \A j \in 1..Len(store_log) :
              (store_log[j].path = store_log[k].path)
                 <=> (store_log[j].body = store_log[k].body)
        /\ store_log[k].path \in DOMAIN store_log[k].files_after
        /\ store_log[k].files_after[store_log[k].path] = store_log[k].body
        /\ asset_files[store_log[k].path] = store_log[k].body

\* C18 for store calls none of which is given bytes that share their
\* truncated hash with other bytes stored before
C18_ApartFromCollisions ==
    (\A j, k \in 1..Len(store_log) :
        GetFileHash(store_log[j].body) = GetFileHash(store_log[k].body)
        => store_log[j].body = store_log[k].body)
    => C18_OneFilePerContent

\* f keeps every key of g with the value it had
Extends(f, g) == \A k \in DOMAIN g : k \in DOMAIN f /\ f[k] = g[k]

\* C19: no step removes an entry of the asset cache index (in memory or on
\* disk) or changes the path of a hash once set, and no step deletes an
\* asset file; the same holds from one store call's start to its return.
C19_AppendOnly ==
    /\ [][/\ Extends(asset_cache', asset_cache)
          /\ Extends(cache_file', cache_file)
          /\ DOMAIN asset_files \subseteq DOMAIN asset_files']_vars
    /\ [](\A k \in 1..Len(store_log) :
             /\ Extends(store_log[k].index_after, store_log[k].index_before)
             /\ DOMAIN store_log[k].files_before
                   \subseteq DOMAIN store_log[k].files_after)

\* the second run has stored new bytes beside those of the first run, and
\* has met cached bytes again
C19_Witness ==
    /\ runs = 2
    /\ pc = "done"
    /\ Cardinality(DOMAIN pre.asset_cache) = 1
    /\ Cardinality(DOMAIN asset_cache) = 2
    /\ Cardinality(DOMAIN asset_files) = 2
    /\ \E k \in 1..Len(store_log) :
          /\ store_log[k].index_before # EmptyDir
          /\ store_log[k].index_after = store_log[k].index_before

\* the previous record p matches the candidate c: same URL, status success,
\* and its stored HTML exists in dir and normalizes to what c's HTML does
Matches(p, c, dir) ==
    /\ p.url = c.url
    /\ p.status = "success"
    /\ PrevHtmlFile(p) \in DOMAIN dir
    /\ Normalize(dir[PrevHtmlFile(p)]) = Normalize(c.html)

\* the condition under which the decision is described to be "unchanged"
Unchanged(temp, snaps) ==
    /\ MostRecentSnapshot(snaps) # NoSnapshot
    /\ LET dir == snaps[MostRecentSnapshot(snaps)]
       IN  /\ HasManifest(dir)
           /\ Len(temp) = Len(dir[ManifestName].pages)
           /\ \A i \in 1..Len(temp) :
                 temp[i].status = "success"
                 => \E j \in 1..Len(dir[ManifestName].pages) :
                       Matches(dir[ManifestName].pages[j], temp[i], dir)

\* C20: the detector returns false exactly when a most recent snapshot
\* exists, has a manifest, the candidate count equals the manifest's record
\* count, and every successful candidate has a successful previous record of
\* the same URL whose stored HTML exists and normalizes to the same text;
\* failed candidates enter only through the count.
C20_ChangeDecision ==
    Decided => (~detector.changed <=> Unchanged(temp_pages, pre.snapshots))

\* the detector returned false for a batch of a failed page and a page that
\* was compared and matched
C20_Witness ==
    /\ Decided
    /\ ~detector.changed
    /\ Len(temp_pages) = 2
    /\ \E i \in 1..2 : temp_pages[i].status = "failed"
    /\ \E i \in 1..2 : temp_pages[i].status = "success"
    /\ Len(detector.normalized) = 1

\* the detector returned true although the counts agree and the manifest
\* exists: a successful candidate has no matching previous record
C20_WitnessChanged ==
    /\ Decided
    /\ detector.changed
    /\ detector.loaded
    /\ Len(temp_pages) = Len(pre.snapshots[Baseline][ManifestName].pages)
    /\ Len(temp_pages) = 2

\* the detector returned true because the stored HTML of the previous
\* record differs after normalization
C20_WitnessDiffers ==
    Decided /\ detector.changed /\ detector.dump.written

\* the names a manifest gives as rewritten files of records that also have
\* an original file, and the names it gives as original files
RewrittenNames(mf) ==
    {mf.pages[i].file :
        i \in {j \in 1..Len(mf.pages) : "original_file" \in DOMAIN mf.pages[j]}}

OriginalNames(mf) ==
    {mf.pages[i].original_file :
        i \in {j \in 1..Len(mf.pages) : "original_file" \in DOMAIN mf.pages[j]}}

\* a snapshot directory with the rewritten files of its records deleted
DirWithoutRewritten(dir) ==
    IF HasManifest(dir)
    THEN LET gone == RewrittenNames(dir[ManifestName]) \ OriginalNames(dir[ManifestName])
         IN  [n \in DOMAIN dir \ gone |-> dir[n]]
    ELSE dir

\* a snapshot directory with other content in the rewritten files
DirWithOtherRewritten(dir) ==
    IF HasManifest(dir)
    THEN LET other == RewrittenNames(dir[ManifestName]) \ OriginalNames(dir[ManifestName])
         IN  [n \in DOMAIN dir |-> IF n \in other THEN <<Text("txt", "other")>> ELSE dir[n]]
    ELSE dir

\* a success record as snapshots made before original files were kept have it
LegacyRecord(rec) ==
    IF "original_file" \in DOMAIN rec
    THEN [url |-> rec.url, file |-> rec.file, assets |-> rec.assets, status |-> rec.status]
    ELSE rec

\* a snapshot directory as such a snapshot: no original_file in the records,
\* no original files on disk
LegacyDir(dir) ==
    IF HasManifest(dir)
    THEN LET mf == dir[ManifestName]
             kept == DOMAIN dir \ (OriginalNames(mf) \ RewrittenNames(mf))
         IN  [n \in kept |->
                 IF n = ManifestName
                 THEN [timestamp |-> mf.timestamp, pages |-> MapSeq(LegacyRecord, mf.pages)]
                 ELSE dir[n]]
    ELSE dir

\* a snapshot directory whose original files hold what its rewritten files hold
DirRewrittenAsOriginal(dir) ==
    IF HasManifest(dir)
    THEN LET mf == dir[ManifestName]
             from(n) == CHOOSE i \in 1..Len(mf.pages) :
                            /\ "original_file" \in DOMAIN mf.pages[i]
                            /\ mf.pages[i].original_file = n
         IN  [n \in DOMAIN dir |->
                 IF n \in OriginalNames(mf) /\ mf.pages[from(n)].file \in DOMAIN dir
                 THEN dir[mf.pages[from(n)].file]
                 ELSE dir[n]]
    ELSE dir

OverDirs(Op(_), snaps) == [d \in DOMAIN snaps |-> Op(snaps[d])]

\* C21: the decision of a run is the decision the detector gives when the
\* rewritten files of the previous records are deleted or hold other
\* content: with an original_file in the record only the original file
\* counts.  For records without original_file the decision is the one the
\* rewritten file gives.
C21_ComparesOriginal ==
    Decided
    => /\ detector.changed =
            HasChangedFromTemp(temp_pages,
                               OverDirs(DirWithoutRewritten, pre.snapshots)).changed
       /\ detector.changed =
            HasChangedFromTemp(temp_pages,
                               OverDirs(DirWithOtherRewritten, pre.snapshots)).changed
       /\ HasChangedFromTemp(temp_pages, OverDirs(LegacyDir, pre.snapshots)).changed
            = HasChangedFromTemp(temp_pages,
                                 OverDirs(DirRewrittenAsOriginal, pre.snapshots)).changed

\* a run found unchanged against a snapshot whose rewritten page points
\* into the asset tree, so that the rewritten file would have differed
C21_Witness ==
    /\ Decided
    /\ ~detector.changed
    /\ detector.normalized # <<>>
    /\ LET dir == pre.snapshots[Baseline]
           rec == dir[ManifestName].pages[1]
       IN  /\ rec.status = "success"
           /\ rec.assets # <<>>
           /\ Normalize(dir[rec.file]) # Normalize(dir[rec.original_file])
    /\ HasChangedFromTemp(temp_pages, OverDirs(LegacyDir, pre.snapshots)).changed

\* candidate i of the batch is a successful page that does not match the
\* previous snapshot dir: no successful record of its URL, or the stored
\* HTML is missing, or the normalized texts differ
Mismatches(c, dir) ==
    /\ c.status = "success"
    /\ ~\E j \in 1..Len(dir[ManifestName].pages) :
           Matches(dir[ManifestName].pages[j], c, dir)

\* the successful candidates among the first n, in list order
SuccessesUpTo(temp, n) ==
    SelectSeq([i \in 1..n |-> i], LAMBDA i : temp[i].status = "success")

\* C22: when the detector has looked at pages (manifest loaded, counts
\* equal) and returned true, it stopped at the first successful candidate
\* that mismatches: the candidates it normalized are the successful ones
\* before that candidate, in list order, plus that candidate when both
\* texts were there to compare; no later candidate was normalized; and the
\* call wrote at most one pair of debug dumps, the two normalized texts of
\* that candidate.
C22_ShortCircuit ==
    (/\ Decided
     /\ detector.changed
     /\ detector.loaded
     /\ Len(temp_pages) = Len(pre.snapshots[Baseline][ManifestName].pages))
    => LET dir == pre.snapshots[Baseline]
           bad == {i \in 1..Len(temp_pages) : Mismatches(temp_pages[i], dir)}
           first == SetMin(bad)
       IN  /\ bad # {}
           /\ \/ detector.normalized = SuccessesUpTo(temp_pages, first)
              \/ detector.normalized = SuccessesUpTo(temp_pages, first - 1)
           /\ Cardinality(DOMAIN debug_files)
                 <= Cardinality(DOMAIN pre.debug_files) + 1
           /\ detector.dump.written
              => /\ detector.normalized = SuccessesUpTo(temp_pages, first)
                 /\ detector.dump.current = Normalize(temp_pages[first].html)
                 /\ \E t \in DOMAIN debug_files :
                       /\ debug_files[t].current = detector.dump.current
                       /\ debug_files[t].previous = detector.dump.previous
           /\ \A t \in DOMAIN debug_files :
                 t \in DOMAIN pre.debug_files /\ debug_files[t] # pre.debug_files[t]
                 => detector.dump.written

\* the first of two successful pages differs from its stored original: the
\* detector returned true having normalized that page only
C22_Witness ==
    /\ Decided
    /\ detector.changed
    /\ detector.loaded
    /\ Len(temp_pages) = 2
    /\ AllSuccess(temp_pages)
    /\ detector.normalized = <<1>>
    /\ detector.dump.written
    /\ DOMAIN debug_files # DOMAIN pre.debug_files

\* the mismatch is at the second page, after a first page that matched
C22_WitnessSecond ==
    /\ Decided
    /\ detector.changed
    /\ detector.loaded
    /\ Len(temp_pages) = 2
    /\ (detector.normalized = <<1, 2>> \/ detector.normalized = <<1>>)
    /\ ~Mismatches(temp_pages[1], pre.snapshots[Baseline])
    /\ temp_pages[1].status = "success"

\* how many of the first k asset requests of a _rewrite_html call got content
FetchedUpTo(call, k) ==
    Cardinality({m \in 1..k : call.requested[m].fetched})

\* C23: asset failures are isolated.  In every _rewrite_html call each asset
\* tag is requested, in the rewriter's order, whatever happened to the tags
\* before it; a tag whose fetch gave nothing keeps its reference in the
\* returned HTML and makes no store call; a tag whose fetch gave content
\* refers to the path the store returned for it; the assets used are
\* those paths, one per rewritten tag, in order; and the index changes in
\* the store calls only.
C23_FailureIsolated ==
    \A c \in 1..Len(rewriter) :
        LET call == rewriter[c]
            tags == RewriteOrder(call.html)
            got == SelectSeq([k \in 1..Len(tags) |-> k],
                             LAMBDA k : call.requested[k].fetched)
            StoreOf(k) == call.stored[FetchedUpTo(call, k)]
        IN  /\ Len(call.requested) = Len(tags)
            /\ Len(call.stored) = Len(got)
            /\ \A k \in 1..Len(tags) :
                  /\ call.requested[k].ref = call.html[tags[k]]
                  /\ IF call.requested[k].fetched
                     THEN /\ StoreOf(k).ref = call.html[tags[k]]
                          /\ call.text[tags[k]] =
                                Serialize(Localize(call.html[tags[k]], StoreOf(k).path))
                     ELSE call.text[tags[k]] = Serialize(call.html[tags[k]])
            /\ call.assets_used = [m \in 1..Len(got) |-> StoreOf(got[m]).path]
            /\ \A m \in 2..Len(call.stored) :
                  call.stored[m].index_before = call.stored[m - 1].index_after
            /\ call.stored # <<>>
               => /\ call.stored[1].index_before = call.cache_before
                  /\ call.stored[Len(call.stored)].index_after = call.cache_after
            /\ call.stored = <<>> => call.cache_after = call.cache_before

\* a call on a page with three asset tags whose first request failed and
\* whose later ones were stored and rewritten
C23_Witness ==
    \E c \in 1..Len(rewriter) :
        LET call == rewriter[c]
            tags == RewriteOrder(call.html)
        IN  /\ Len(tags) = 3
            /\ ~call.requested[1].fetched
            /\ call.requested[2].fetched
            /\ call.requested[3].fetched
            /\ Len(call.assets_used) = 2
            /\ call.text[tags[1]].loc = "remote"
            /\ call.text[tags[2]].loc = "local"
            /\ call.text[tags[3]].loc = "local"
            /\ call.cache_after # call.cache_before

\* a snapshot directory with its manifest, and with both files of every
\* successful record of that manifest
CompleteSnapshot(dir) ==
    /\ HasManifest(dir)
    /\ \A i \in 1..Len(dir[ManifestName].pages) :
          LET rec == dir[ManifestName].pages[i]
          IN  rec.status = "success"
              => /\ rec.file \in DOMAIN dir
                 /\ rec.original_file \in DOMAIN dir

\* C24: no partial snapshot outlives its run: every snapshot directory
\* other than the one a run in progress is writing has its manifest and
\* the files of the manifest's successful records, also after a run was
\* interrupted or left by an exception.
C24_NoPartialSnapshot ==
    \A d \in DOMAIN snapshots :
        (pc \in {"idle", "done", "aborted"} \/ d # timestamp)
        => CompleteSnapshot(snapshots[d])

\* C25: an interrupt raised while run_continuous is running ends it through
\* the 'stopped by user' handler, whatever the loop was doing
C25_CleanStop == loop.interrupted => loop.at = "stopped"

\* the interrupts that arrive inside the try block end the loop cleanly
C25_CleanStopInTry ==
    (loop.interrupted /\ loop.at # "stopped")
    => pc = "aborted" /\ loop.at = "raised"

\* C26: in the snapshot a run has written, every successful record's
\* original file holds the HTML fetched for the record's URL in that run,
\* and its rewritten file is the rewrite of that HTML.
C26_PristineFiles ==
    ManifestWritten
    => LET dir == snapshots[timestamp]
           pages == dir[ManifestName].pages
       IN  \A i \in 1..Len(pages) :
               pages[i].status = "success"
               => /\ pages[i].url = temp_pages[i].url
                  /\ dir[pages[i].original_file] = temp_pages[i].html
                  /\ IsRewriteOf(dir[pages[i].file], temp_pages[i].html)

\* the same for page lists whose URLs derive different file names
C26_PristineApart ==
    (/\ ManifestWritten
     /\ \A i, j \in 1..Len(temp_pages) :
           i # j => FileNameOf(temp_pages[i].url) # FileNameOf(temp_pages[j].url))
    => C26_PristineFiles

\* C27: every path in the persisted index names an asset file on disk, in
\* every state, the states between the steps of a store call and the
\* states an interrupted call leaves included; so does every path of the
\* index in memory once its file step is done.
C27_IndexPointsAtFiles ==
    /\ \A h \in DOMAIN cache_file : cache_file[h] \in DOMAIN asset_files
    /\ \A h \in DOMAIN asset_cache : asset_cache[h] \in DOMAIN asset_files

\* a call was interrupted between the index update and the persist, after
\* an earlier call had persisted an entry: the file is there, the index in
\* memory is ahead of the persisted one
C27_Witness ==
    /\ store_call.interrupted >= 1
    /\ store_call.at = "idle"
    /\ cache_file # EmptyDir
    /\ asset_cache # cache_file
    /\ \E p \in DOMAIN asset_files :
          \A h \in DOMAIN cache_file : cache_file[h] # p

\* a call interrupted after its file step is followed by a completed call
\* for the same bytes
C27_WitnessRetry ==
    /\ store_call.interrupted >= 1
    /\ store_call.at = "idle"
    /\ store_log # <<>>
    /\ store_log[Len(store_log)].files_before = store_log[Len(store_log)].files_after
    /\ store_log[Len(store_log)].index_before # store_log[Len(store_log)].index_after

\* the run in progress found a most recent snapshot directory without
\* manifest
Recovering ==
    /\ DOMAIN pre.snapshots # {}
    /\ ~HasManifest(pre.snapshots[Baseline])

\* C28, first part: a run that finds the most recent snapshot directory
\* without manifest reports changed and compares no page
C28_ChangedWithoutComparing ==
    (Decided /\ Recovering)
    => /\ detector.changed
       /\ ~detector.loaded
       /\ detector.normalized = <<>>

\* C28, second part: when that run completes it has written a new
\* directory with a manifest, which is the most recent snapshot
C28_NewSnapshot ==
    (Recovering /\ pc = "done")
    => /\ result # NoSnapshot
       /\ result \notin DOMAIN pre.snapshots
       /\ result = MostRecentSnapshot(snapshots)
       /\ HasManifest(snapshots[result])

\* C28, second part without "new": the completed run's directory has a
\* manifest and is the most recent snapshot
C28_ManifestAgain ==
    (Recovering /\ pc = "done")
    => /\ result # NoSnapshot
       /\ result = MostRecentSnapshot(snapshots)
       /\ HasManifest(snapshots[result])

\* C28: recovery from an incomplete snapshot.  The run that finds the most
\* recent directory without manifest reports changed without comparing and
\* completes with a new directory that has a manifest and is the most
\* recent one; the run that follows a completed recovery with the same
\* page list and the same content returns None.
C28_Recovery ==
    /\ C28_ChangedWithoutComparing
    /\ C28_NewSnapshot
    /\ (/\ runs = 2
        /\ Decided
        /\ temp_pages = prev_temp
        /\ HasManifest(pre.snapshots[Baseline]))
       => /\ ~detector.changed
          /\ pc = "done"
          /\ result = NoSnapshot

\* the third part alone, for page lists whose derived file names differ
C28_NullAfterRecoveryApart ==
    (/\ runs = 2
     /\ Decided
     /\ temp_pages = prev_temp
     /\ HasManifest(pre.snapshots[Baseline])
     /\ Distinct(MapSeq(LAMBDA tp : FileNameOf(tp.url), temp_pages)))
    => /\ ~detector.changed
       /\ pc = "done"
       /\ result = NoSnapshot

====
